---- MODULE Spec2Model ----
(***************************************************************************)
(* Run orchestrator of the CHM generator.                                  *)
(*                                                                         *)
(* Three parties are modelled:                                             *)
(*   - the renderer (views/script/index.vue): the reactive run state, the  *)
(*     onRunScripts coroutine(s) and onCancelExecution;                    *)
(*   - the main process (electron/main/index.ts): the python:runScript,    *)
(*     python:cancelScript and logs:clearRealtime handlers and the         *)
(*     currentPythonProcess reference;                                     *)
(*   - the spawned step processes (output chunks, exit).                   *)
(* The renderer and the main process are single-threaded event loops; one  *)
(* action is one macrotask (an event handler together with the promise     *)
(* continuations it triggers, `await nextTick()` included, which is        *)
(* resolved in the microtask queue).  ipcRenderer.invoke requests and      *)
(* their replies travel in two FIFO channels.                              *)
(***************************************************************************)
EXTENDS Integers, Sequences, FiniteSets, TLC

(* ------------------------------ bounds --------------------------------- *)
MaxRuns == 2        \* run requests accepted in one behaviour
MaxCancels == 1     \* cancel requests (confirmed clicks on the cancel button)
MaxChunks == 1      \* output chunks one step process emits
MaxRestarts == 1    \* application restarts in one behaviour
MaxEdits == 1       \* edits of the form in one behaviour
MaxText == 3        \* tokens in the output of the step whose lines are counted

(* ------------------------------ values --------------------------------- *)
NullCode == 1000    \* `code` of a close event after termination by signal (JS null)

Undefined == <<"undefined">>      \* an absent `error` field
EmptyText == <<>>                 \* the empty string ""

Single(id, name) == [id |-> id, name |-> name, scripts |-> <<>>]
Group(id, members) == [id |-> id, name |-> id, scripts |-> members]

\* The ordered lists of checked units a run request can carry: two single
\* steps, or one pipeline of two members; SeqSelections adds a pipeline of
\* three members for the runs that are checked without cancel requests.
TwoSingles == <<Single("1", "decompress"), Single("2", "gen_html")>>
PipelineXY == <<Group("p1", <<"x", "y">>)>>
PipelineABC == <<Group("p3", <<"A", "B", "C">>)>>

Selections == {TwoSingles, PipelineXY}
SeqSelections == Selections \cup {PipelineABC}

StderrTexts == {<<"template missing">>}
StdoutTexts == {<<"ok">>}

RunIds == 1..MaxRuns

VARIABLES
    isRunning,              \* index.vue: isRunning
    currentScriptIndex,     \* index.vue: currentScriptIndex
    scriptResults,          \* index.vue: scriptResults (key -> outcome)
    isCancelled,            \* index.vue: isCancelled
    loops,                  \* the onRunScripts coroutines, by run id
    confirmOpen,            \* handleCancelExecution waits for the confirm dialog
    toMain,                 \* ipcRenderer.invoke requests in flight
    fromMain,               \* replies in flight
    currentPythonProcess,   \* main: currentPythonProcess (see NoProcess, Zombie)
    procs,                  \* the Step Invocation each coroutine waits for
    zombies,                \* ChildProcess objects of failed spawns, 'close' pending
    cancels,                \* history: the number of cancel requests made
    killTimers,             \* main: pending setTimeout callbacks of python:cancelScript
    liveLog,                \* the lines of cache/log.txt (the live log)
    historyLog,             \* the number of entries of config/log.txt (the history log)
    disk,                   \* whether writes to each log file succeed
    canRun,                 \* index.vue: canRun (folders and chip fields are valid)
    notice,                 \* the last blocking notice shown (message.error)
    form,                   \* index.vue: inputFolder, outputFolder, chipConfig
    heap,                   \* the fields of the chip configuration objects
    edits,                  \* history: the number of form edits made
    restarts,               \* history: the number of application restarts
    feed                    \* a step output and the chunks it is delivered in

vars == <<isRunning, currentScriptIndex, scriptResults, isCancelled, loops,
          confirmOpen, toMain, fromMain, currentPythonProcess, procs, zombies,
          cancels, killTimers, liveLog, historyLog, disk, canRun, notice, form,
          heap, edits, restarts, feed>>

\* The two log files; the state of the form, the disk and the output feed.
logVars == <<liveLog, historyLog>>
envVars == <<disk, canRun, notice, form, heap, edits, restarts, feed>>

\* currentPythonProcess holds null, the process of the invocation coroutine r
\* waits for (r \in RunIds), or a ChildProcess whose spawn failed.
NoProcess == 0
Zombie == -1

(* --------------------------- result records ---------------------------- *)
EmptyMap == [k \in {} |-> TRUE]

Put(m, k, v) == [x \in (DOMAIN m) \cup {k} |-> IF x = k THEN v ELSE m[x]]

GroupKey(script) == <<"group", script.id>>
SingleKey(script) == <<"single", script.id>>

IsPipeline(script) == Len(script.scripts) > 0

\* A close handler that reports every exit as a success.
CloseResultAlwaysSuccess(code, output, errorOutput) ==
    [success |-> TRUE, output |-> output, error |-> Undefined, code |-> code]

\* What python:runScript resolves with when the process closes with `code`
\* (lines 501-516).
CloseResult(code, output, errorOutput) ==
    IF code = 0
    THEN [success |-> TRUE, output |-> output, error |-> Undefined, code |-> code]
    ELSE [success |-> FALSE, output |-> output, error |-> errorOutput, code |-> code]

\* The message of the Error a rejected ipcRenderer.invoke throws in the renderer.
InvokeError(msg) == <<"Error invoking remote method 'python:runScript'">> \o msg

ScriptMissingError == <<"Python script not found">>
SpawnFailedError == <<"failed to start Python script">>

\* A plain outcome as scriptResults holds it (no subScripts field).
Plain(result) ==
    [success |-> result.success, output |-> result.output, error |-> result.error,
     code |-> result.code, hasSubScripts |-> FALSE, subScripts |-> <<>>]

SubResult(name, result) ==
    [name |-> name, success |-> result.success, output |-> result.output,
     error |-> result.error, code |-> result.code]

\* A catch block that records the exit code 1 instead of -1.
ThrownResultExitOne(msg) ==
    [success |-> FALSE, output |-> EmptyText, error |-> msg, code |-> 1]

ThrownResult(msg) ==
    [success |-> FALSE, output |-> EmptyText, error |-> msg, code |-> -1]

SubScriptError(name, err) == <<"sub-script", name, "failed">> \o err

\* A member record that appends the member outcome but leaves the group's
\* success flag as it was.
RecordMemberKeepsSuccess(results, key, name, result) ==
    LET cur == IF key \in DOMAIN results
               THEN results[key]
               ELSE [success |-> TRUE, output |-> EmptyText, error |-> Undefined,
                     code |-> 0, hasSubScripts |-> TRUE, subScripts |-> <<>>]
    IN  Put(results, key, [cur EXCEPT !.subScripts = Append(@, SubResult(name, result))])

\* onRunScripts, lines 462-487: record a member's resolved result.
RecordMember(results, key, name, result) ==
    LET cur == IF key \in DOMAIN results
               THEN results[key]
               ELSE [success |-> TRUE, output |-> EmptyText, error |-> Undefined,
                     code |-> 0, hasSubScripts |-> TRUE, subScripts |-> <<>>]
        pushed == [cur EXCEPT !.subScripts = Append(@, SubResult(name, result))]
    IN  Put(results, key,
            IF ~result.success
            THEN [pushed EXCEPT !.success = FALSE,
                                !.error = SubScriptError(name, result.error)]
            ELSE pushed)

\* onRunScripts, lines 496-519: record a member whose invocation threw.
RecordMemberThrown(results, key, name, msg) ==
    LET cur == IF key \in DOMAIN results
               THEN results[key]
               ELSE [success |-> FALSE, output |-> EmptyText, error |-> Undefined,
                     code |-> -1, hasSubScripts |-> TRUE, subScripts |-> <<>>]
        pushed == [cur EXCEPT !.subScripts = Append(@, SubResult(name, ThrownResult(msg)))]
    IN  Put(results, key,
            [pushed EXCEPT !.success = FALSE, !.error = SubScriptError(name, msg)])

\* onRunScripts, lines 546-548 and 557-564.
RecordSingle(results, key, result) == Put(results, key, Plain(result))

\* A catch block that swallows the error without recording an outcome.
RecordSingleThrownDropped(results, key, msg) == results

RecordSingleThrown(results, key, msg) == Put(results, key, Plain(ThrownResult(msg)))

(* ------------------- control flow of onRunScripts ---------------------- *)
\* Where the two nested for loops of onRunScripts stop next: at a call of
\* runPythonScript for member j of unit i (0-based, as in the code), or
\* past the outer loop.  c is isCancelled, which no statement between two
\* awaits changes.  enter: the outer loop body was entered anew.
Exit == [kind |-> "exit", i |-> 0, j |-> 0, enter |-> FALSE]
Launch(i, j, enter) == [kind |-> "launch", i |-> i, j |-> j, enter |-> enter]

RECURSIVE OuterLoop(_, _, _)
\* lines 435-447: the member loop, from member j.
InnerLoop(sel, i, j, c, enter) ==
    IF j >= Len(sel[i + 1].scripts) THEN OuterLoop(sel, i + 1, c)
    ELSE IF c THEN OuterLoop(sel, i + 1, c)      \* break leaves the member loop only
    ELSE Launch(i, j, enter)

\* lines 413-431 and 527-531: the unit loop, from unit i.
OuterLoop(sel, i, c) ==
    IF i >= Len(sel) THEN Exit
    ELSE IF c THEN Exit
    ELSE IF IsPipeline(sel[i + 1]) THEN InnerLoop(sel, i, 0, c, TRUE)
    ELSE Launch(i, 0, TRUE)

\* A member loop that leaves the pipeline after its first recorded member.
AfterRecordLeavesPipeline(sel, i, j, c) == OuterLoop(sel, i + 1, c)

\* After the body for (i, j) ended without a break.
AfterRecord(sel, i, j, c) ==
    IF IsPipeline(sel[i + 1]) THEN InnerLoop(sel, i, j + 1, c, FALSE)
    ELSE OuterLoop(sel, i + 1, c)

\* After `if (isCancelled.value) break` fired behind the await (lines 458, 492,
\* 542, 553): in a pipeline the break leaves the member loop only.
AfterBreak(sel, i, c) ==
    IF IsPipeline(sel[i + 1]) THEN OuterLoop(sel, i + 1, c) ELSE Exit

StepName(sel, i, j) ==
    IF IsPipeline(sel[i + 1]) THEN sel[i + 1].scripts[j + 1] ELSE sel[i + 1].name

UnitKey(script) == IF IsPipeline(script) THEN GroupKey(script) ELSE SingleKey(script)

\* lines 575-594: the names of the selected units whose outcome is a failure.
RECURSIVE FailedScripts(_, _)
FailedScripts(sel, results) ==
    IF sel = <<>> THEN <<>>
    ELSE LET script == Head(sel)
             key == UnitKey(script)
         IN  (IF key \in DOMAIN results /\ ~results[key].success
              THEN <<script.name>> ELSE <<>>)
             \o FailedScripts(Tail(sel), results)

\* lines 571-603: the classification of the run when the loop is left.
Classify(cancelled, failed) ==
    IF cancelled THEN "cancelled"
    ELSE IF failed # <<>> THEN "failed"
    ELSE "succeeded"

(* ------------------------------ records -------------------------------- *)
\* A coroutine of onRunScripts.  launched, badUnits, askedAt, killedUnit and
\* flagSeen are history: the step names passed to runPythonScript so far,
\* the units with a step that did not succeed, where the loop was when a
\* cancel was first requested, the unit whose process python:cancelScript
\* signalled, and whether isCancelled was set while the loop was running.
NotAsked == [unit |-> -1, member |-> -1, st |-> "none"]

\* No arguments: of a coroutine that has not started, of no invocation.
NoArgs == [inputFolder |-> "", outputFolder |-> "", chipName |-> ""]
\* currentInputFolder, currentOutputFolder, currentChipConfig (lines 389-391)
\* before a run has taken them; chipConfig 0 is no object.
NoSnapshot == [inputFolder |-> "", outputFolder |-> "", chipConfig |-> 0]

\* snapshot is what lines 389-391 keep; requested is history: the values the
\* three fields had when the run was requested.
FreeLoop == [pc |-> "free", sel |-> <<>>, i |-> 0, j |-> 0,
             cls |-> "none", failed |-> <<>>,
             launched |-> <<>>, badUnits |-> {}, askedAt |-> NotAsked,
             killedUnit |-> -1, flagSeen |-> FALSE,
             snapshot |-> NoSnapshot, requested |-> NoArgs]

\* The Step Invocation of a coroutine: st is "none" (no invocation
\* pending), "sent" (request on its way to the main process), "alive"
\* (process running), "failing" (spawn failed, 'error' not yet emitted) or
\* "closed" ('close' handled, reply on its way to the renderer).
NoInvocation == [st |-> "none", output |-> EmptyText, errorOutput |-> EmptyText,
                 code |-> 0, signalled |-> FALSE, killed |-> FALSE, forced |-> FALSE,
                 args |-> NoArgs]

(* ------------------------------- Init ---------------------------------- *)
\* The form as the page shows it first.  chipConfig is a reference to an
\* object (toRaw does not copy); heap holds the objects' chipName field.
ChipObjects == {1, 2}
FolderNames == {"dirA", "dirB"}
ChipNames == {"N32G430", "N32L40x"}

FirstForm == [inputFolder |-> "dirA", outputFolder |-> "dirA", chipConfig |-> 1]
FirstHeap == [o \in ChipObjects |-> "N32G430"]

\* feed: the output one step process is going to print (text) and the
\* 'data' chunks in which the rest of it will arrive.
NoFeed == [text |-> <<>>, rest |-> <<>>]

Tokens == {"a", " ", "\n"}
Texts == UNION {[1..n -> Tokens] : n \in 0..MaxText}

\* Every way the stream can cut a text into non-empty chunks.
RECURSIVE Chunkings(_)
Chunkings(text) ==
    IF text = <<>> THEN {<<>>}
    ELSE UNION {{<<SubSeq(text, 1, k)>> \o c :
                    c \in Chunkings(SubSeq(text, k + 1, Len(text)))} :
                k \in 1..Len(text)}

Feeds == UNION {{[text |-> t, rest |-> c] : c \in Chunkings(t)} : t \in Texts}

Init ==
    /\ isRunning = FALSE
    /\ currentScriptIndex = -1
    /\ scriptResults = EmptyMap
    /\ isCancelled = FALSE
    /\ loops = [r \in RunIds |-> FreeLoop]
    /\ confirmOpen = FALSE
    /\ toMain = <<>>
    /\ fromMain = <<>>
    /\ currentPythonProcess = NoProcess
    /\ procs = [r \in RunIds |-> NoInvocation]
    /\ zombies = 0
    /\ cancels = 0
    /\ killTimers = <<>>
    /\ liveLog = <<>>
    /\ historyLog = 1          \* the start-up entry, line 701
    /\ disk = [live |-> TRUE, history |-> TRUE]
    /\ canRun = TRUE
    /\ notice = "none"
    /\ form = FirstForm
    /\ heap = FirstHeap
    /\ edits = 0
    /\ restarts = 0
    /\ feed = NoFeed

\* The same start, with the output the first step is going to print.
InitLines ==
    /\ isRunning = FALSE
    /\ currentScriptIndex = -1
    /\ scriptResults = EmptyMap
    /\ isCancelled = FALSE
    /\ loops = [r \in RunIds |-> FreeLoop]
    /\ confirmOpen = FALSE
    /\ toMain = <<>>
    /\ fromMain = <<>>
    /\ currentPythonProcess = NoProcess
    /\ procs = [r \in RunIds |-> NoInvocation]
    /\ zombies = 0
    /\ cancels = 0
    /\ killTimers = <<>>
    /\ liveLog = <<>>
    /\ historyLog = 1
    /\ disk = [live |-> TRUE, history |-> TRUE]
    /\ canRun = TRUE
    /\ notice = "none"
    /\ form = FirstForm
    /\ heap = FirstHeap
    /\ edits = 0
    /\ restarts = 0
    /\ feed \in Feeds

(* --------------------------- renderer: run ----------------------------- *)
\* The record of a coroutine once its finally block has run.
Finished(cls) == [FreeLoop EXCEPT !.pc = "done", !.cls = cls]

\* toRaw(ref.value), lines 389-391: a string is kept as it is, and of the
\* chipConfig object the reference is kept (toRaw unwraps, it does not copy).
TakeSnapshot ==
    [inputFolder |-> form.inputFolder, outputFolder |-> form.outputFolder,
     chipConfig |-> form.chipConfig]

\* The arguments ipcRenderer.invoke serialises at the call, lines 449-455
\* and 533-539: the object's content as it is at that moment.
InvokeArgs(snapshot) ==
    [inputFolder |-> snapshot.inputFolder, outputFolder |-> snapshot.outputFolder,
     chipName |-> heap[snapshot.chipConfig]]

\* The loop of run r moves to position pos with the results map `results`:
\* either it calls runPythonScript (and suspends), or it leaves the loop and
\* runs lines 571-614.
Proceed(r, pos, results, index) ==
    LET sel == loops[r].sel IN
    /\ scriptResults' = results
    /\ IF pos.kind = "launch"
       THEN /\ procs' = [procs EXCEPT ![r] =
                           [NoInvocation EXCEPT !.st = "sent",
                                                !.args = InvokeArgs(loops[r].snapshot)]]
            /\ toMain' = Append(toMain, [kind |-> "run", id |-> r])
            /\ loops' = [loops EXCEPT ![r] =
                            [@ EXCEPT !.pc = "awaiting", !.i = pos.i, !.j = pos.j,
                                      !.launched = Append(@, StepName(sel, pos.i, pos.j))]]
            /\ currentScriptIndex' = IF pos.enter /\ pos.i > 0 THEN pos.i ELSE index
            /\ UNCHANGED <<isRunning, isCancelled>>
       ELSE IF Classify(isCancelled, <<>>) = "cancelled"
       THEN \* cancelled: no notification; finally
            /\ loops' = [loops EXCEPT ![r] = Finished("cancelled")]
            /\ procs' = [procs EXCEPT ![r] = NoInvocation]
            /\ isRunning' = FALSE
            /\ currentScriptIndex' = -1
            /\ isCancelled' = FALSE
            /\ UNCHANGED toMain
       ELSE \* await requestNotificationPermission()
            LET failed == FailedScripts(sel, results) IN
            /\ loops' = [loops EXCEPT ![r] =
                            [@ EXCEPT !.pc = "notifying",
                                      !.cls = Classify(isCancelled, failed),
                                      !.failed = failed]]
            /\ procs' = [procs EXCEPT ![r] = NoInvocation]
            /\ currentScriptIndex' = index
            /\ UNCHANGED <<toMain, isRunning, isCancelled>>

\* The run button: ScriptControls.handleRunSelected -> onRunScripts, up to
\* `await clearPageLogs()`.
RunClick(r, sel) ==
    /\ ~isRunning                       \* runButtonDisabled
    /\ canRun                           \* runButtonDisabled; line 375
    /\ ~confirmOpen                     \* the confirm dialog is modal
    /\ loops[r].pc = "free"
    /\ \A q \in RunIds : q < r => loops[q].pc # "free"
    /\ isRunning' = TRUE
    /\ currentScriptIndex' = -1
    /\ scriptResults' = EmptyMap
    /\ isCancelled' = FALSE
    /\ loops' = [loops EXCEPT ![r] =
                    [FreeLoop EXCEPT !.pc = "clearing", !.sel = sel,
                                     !.snapshot = TakeSnapshot,
                                     !.requested = InvokeArgs(TakeSnapshot)]]
    /\ toMain' = Append(toMain, [kind |-> "clear", id |-> r])
    /\ UNCHANGED <<confirmOpen, fromMain, currentPythonProcess, procs, zombies, cancels, killTimers,
                   logVars, envVars>>

\* onRunScripts as a handler of the run-scripts event, whatever the button
\* shows: lines 374-402 with any list of selected scripts, the empty one
\* included.  Line 375 is its only check.
RunRequest(r, sel) ==
    IF canRun
    THEN RunClick(r, sel)
    ELSE /\ ~isRunning
         /\ ~confirmOpen
         /\ loops[r].pc = "free"
         /\ notice' = "notRunnable"    \* message.error, lines 376-378
         /\ UNCHANGED <<isRunning, currentScriptIndex, scriptResults, isCancelled,
                        loops, confirmOpen, toMain, fromMain, currentPythonProcess,
                        procs, zombies, cancels, killTimers, logVars,
                        disk, canRun, form, heap, edits, restarts, feed>>

\* The form becomes valid or invalid (canRun, lines 300-312); the form is
\* disabled while a run is in progress.
FormChange ==
    /\ ~isRunning
    /\ canRun' = ~canRun
    /\ UNCHANGED <<isRunning, currentScriptIndex, scriptResults, isCancelled,
                   loops, confirmOpen, toMain, fromMain, currentPythonProcess,
                   procs, zombies, cancels, killTimers, logVars,
                   disk, notice, form, heap, edits, restarts, feed>>

\* A renderer that leaves currentScriptIndex alone before the loop.
RecvClearReplyKeepsIndex ==
    /\ fromMain # <<>>
    /\ Head(fromMain).kind = "clearReply"
    /\ LET r == Head(fromMain).id
           sel == loops[r].sel
       IN  /\ loops[r].pc = "clearing"
           /\ Proceed(r, OuterLoop(sel, 0, isCancelled), scriptResults,
                      currentScriptIndex)
    /\ fromMain' = Tail(fromMain)
    /\ UNCHANGED <<confirmOpen, currentPythonProcess, zombies, cancels, killTimers,
                   logVars, envVars>>

\* A renderer that gives the run up when the live log could not be cleared.
RecvClearReplyStopsOnFailure ==
    /\ fromMain # <<>>
    /\ Head(fromMain).kind = "clearReply"
    /\ LET r == Head(fromMain).id
           sel == loops[r].sel
       IN  /\ loops[r].pc = "clearing"
           /\ Proceed(r, IF Head(fromMain).success
                         THEN OuterLoop(sel, 0, isCancelled) ELSE Exit,
                      scriptResults,
                      IF Len(sel) > 0 THEN 0 ELSE currentScriptIndex)
    /\ fromMain' = Tail(fromMain)
    /\ UNCHANGED <<confirmOpen, currentPythonProcess, zombies, cancels, killTimers,
                   logVars, envVars>>

\* clearPageLogs resolved: lines 404-431 up to the first runPythonScript.
RecvClearReply ==
    /\ fromMain # <<>>
    /\ Head(fromMain).kind = "clearReply"
    /\ LET r == Head(fromMain).id
           sel == loops[r].sel
       IN  /\ loops[r].pc = "clearing"
           /\ Proceed(r, OuterLoop(sel, 0, isCancelled), scriptResults,
                      IF Len(sel) > 0 THEN 0 ELSE currentScriptIndex)
    /\ fromMain' = Tail(fromMain)
    /\ UNCHANGED <<confirmOpen, currentPythonProcess, zombies, cancels, killTimers,
                   logVars, envVars>>

\* runPythonScript resolved: lines 457-487 and 541-548, then on to the next
\* runPythonScript or out of the loop.
RecvRunResolve ==
    /\ fromMain # <<>>
    /\ Head(fromMain).kind = "resolve"
    /\ LET m == Head(fromMain)
           r == m.id
           sel == loops[r].sel
           i == loops[r].i
           j == loops[r].j
           script == sel[i + 1]
       IN  /\ loops[r].pc = "awaiting"
           /\ IF isCancelled
              THEN Proceed(r, AfterBreak(sel, i, isCancelled), scriptResults,
                           currentScriptIndex)
              ELSE Proceed(r, AfterRecord(sel, i, j, isCancelled),
                           IF IsPipeline(script)
                           THEN RecordMember(scriptResults, GroupKey(script),
                                             script.scripts[j + 1], m.result)
                           ELSE RecordSingle(scriptResults, SingleKey(script), m.result),
                           currentScriptIndex)
    /\ fromMain' = Tail(fromMain)
    /\ UNCHANGED <<confirmOpen, currentPythonProcess, zombies, cancels, killTimers,
                   logVars, envVars>>

\* runPythonScript rejected: the catch blocks, lines 488-522 and 549-567.
RecvRunReject ==
    /\ fromMain # <<>>
    /\ Head(fromMain).kind = "reject"
    /\ LET m == Head(fromMain)
           r == m.id
           sel == loops[r].sel
           i == loops[r].i
           j == loops[r].j
           script == sel[i + 1]
           msg == InvokeError(m.error)
       IN  /\ loops[r].pc = "awaiting"
           /\ IF isCancelled
              THEN Proceed(r, AfterBreak(sel, i, isCancelled), scriptResults,
                           currentScriptIndex)
              ELSE Proceed(r, AfterRecord(sel, i, j, isCancelled),
                           IF IsPipeline(script)
                           THEN RecordMemberThrown(scriptResults, GroupKey(script),
                                                   script.scripts[j + 1], msg)
                           ELSE RecordSingleThrown(scriptResults, SingleKey(script), msg),
                           currentScriptIndex)
    /\ fromMain' = Tail(fromMain)
    /\ UNCHANGED <<confirmOpen, currentPythonProcess, zombies, cancels, killTimers,
                   logVars, envVars>>

\* requestNotificationPermission resolved: the notification, then finally.
NotifyDoneEmptiesResults(r) ==
    /\ loops[r].pc = "notifying"
    /\ loops' = [loops EXCEPT ![r] = Finished(loops[r].cls)]
    /\ isRunning' = FALSE
    /\ currentScriptIndex' = -1
    /\ isCancelled' = FALSE
    /\ scriptResults' = EmptyMap
    /\ UNCHANGED <<confirmOpen, toMain, fromMain,
                   currentPythonProcess, procs, zombies, cancels, killTimers,
                   logVars, envVars>>

\* The finally block after the notification, lines 610-614.
NotifyDone(r) ==
    /\ loops[r].pc = "notifying"
    /\ loops' = [loops EXCEPT ![r] = Finished(loops[r].cls)]
    /\ isRunning' = FALSE
    /\ currentScriptIndex' = -1
    /\ isCancelled' = FALSE
    /\ UNCHANGED <<scriptResults, confirmOpen, toMain, fromMain,
                   currentPythonProcess, procs, zombies, cancels, killTimers,
                   logVars, envVars>>

(* -------------------------- renderer: cancel --------------------------- *)
\* The cancel button (shown while isRunning): useScriptState.handleCancelExecution
\* up to `await confirm.warning(...)`.
CancelClick ==
    /\ isRunning
    /\ ~confirmOpen
    /\ cancels < MaxCancels
    /\ confirmOpen' = TRUE
    /\ UNCHANGED <<isRunning, currentScriptIndex, scriptResults, isCancelled, loops,
                   toMain, fromMain, currentPythonProcess, procs, zombies, cancels, killTimers,
                   logVars, envVars>>

\* The dialog is dismissed: handleCancelExecution returns.
CancelDismiss ==
    /\ confirmOpen
    /\ confirmOpen' = FALSE
    /\ UNCHANGED <<isRunning, currentScriptIndex, scriptResults, isCancelled, loops,
                   toMain, fromMain, currentPythonProcess, procs, zombies, cancels, killTimers,
                   logVars, envVars>>

\* History: where each active loop is when a cancel is first requested.
NoteAsked(l, p) ==
    IF l.pc \in {"clearing", "awaiting"} /\ l.askedAt = NotAsked
    THEN [l EXCEPT !.askedAt = [unit |-> IF l.pc = "awaiting" THEN l.i ELSE -1,
                                member |-> IF l.pc = "awaiting" THEN l.j ELSE -1,
                                st |-> IF l.pc = "awaiting" THEN p.st
                                       ELSE "starting"]]
    ELSE l

\* No coroutine of onRunScripts is between its start and its finally block.
NoRunActive == \A r \in RunIds : loops[r].pc \in {"free", "done"}

\* The dialog is confirmed: onCancelExecution up to `await cancelPythonScript()`.
\* The request carries, as history, whether it was made with no run active.
CancelConfirm ==
    /\ confirmOpen
    /\ confirmOpen' = FALSE
    /\ toMain' = Append(toMain, [kind |-> "cancel", id |-> 0, idle |-> NoRunActive])
    /\ loops' = [r \in RunIds |-> NoteAsked(loops[r], procs[r])]
    /\ cancels' = cancels + 1
    /\ UNCHANGED <<isRunning, currentScriptIndex, scriptResults, isCancelled,
                   fromMain, currentPythonProcess, procs, zombies, killTimers,
                   logVars, envVars>>

\* onCancelExecution, lines 341-355, with the reply of python:cancelScript.
CancelReplied(ok) ==
    IF ok
    THEN /\ isCancelled' = TRUE
         /\ isRunning' = FALSE
         /\ currentScriptIndex' = -1
    ELSE /\ isCancelled' = TRUE
         /\ UNCHANGED <<isRunning, currentScriptIndex>>

\* History: isCancelled is set while the loop is between Starting and Finishing.
NoteFlag(l) ==
    IF l.pc \in {"clearing", "awaiting"} THEN [l EXCEPT !.flagSeen = TRUE] ELSE l

RecvCancelReply ==
    /\ fromMain # <<>>
    /\ Head(fromMain).kind = "cancelReply"
    /\ CancelReplied(Head(fromMain).success)
    /\ loops' = [r \in RunIds |-> NoteFlag(loops[r])]
    /\ fromMain' = Tail(fromMain)
    /\ UNCHANGED <<scriptResults, confirmOpen, toMain,
                   currentPythonProcess, procs, zombies, cancels, killTimers,
                   logVars, envVars>>

(* ------------------------------ log sink ------------------------------- *)
\* A text is a sequence of tokens: "\n", " " or a word.
\* String.prototype.split("\n").
RECURSIVE SplitLines(_)
SplitLines(text) ==
    IF text = <<>> THEN << <<>> >>
    ELSE LET rest == SplitLines(Tail(text)) IN
         IF Head(text) = "\n" THEN << <<>> >> \o rest
         ELSE << <<Head(text)>> \o Head(rest) >> \o Tail(rest)

\* line.trim() is the empty string.
IsBlank(line) == \A k \in 1..Len(line) : line[k] = " "

\* type.toUpperCase().
ToUpperCase(type) ==
    CASE type = "stdout" -> "STDOUT"
      [] type = "stderr" -> "STDERR"
      [] OTHER -> "SYSTEM"

\* `[${timestamp}] [${scriptName}] [${type}] ${line}\n`
LogLine(scriptName, type, line) ==
    [timestamp |-> "toLocaleString", scriptName |-> scriptName,
     type |-> ToUpperCase(type), line |-> line]

RECURSIVE AppendLines(_, _, _, _)
AppendLines(file, scriptName, type, lines) ==
    IF lines = <<>> THEN file
    ELSE AppendLines(IF IsBlank(Head(lines)) THEN file
                     ELSE Append(file, LogLine(scriptName, type, Head(lines))),
                     scriptName, type, Tail(lines))

\* writeRealtimeLog, lines 305-341; ok: the file can be written.
WriteRealtimeLog(file, ok, scriptName, type, data) ==
    IF ok THEN AppendLines(file, scriptName, type, SplitLines(data)) ELSE file

\* addLogToFile / writeLogToFile, lines 256-302: one entry is appended.
AddLogToFile(entries, ok) == IF ok THEN entries + 1 ELSE entries

\* clearRealtimeLog, lines 344-367.
ClearRealtimeLog(file, ok) == IF ok THEN <<>> ELSE file

(* ---------------------------- main process ----------------------------- *)
ExitCodes == {0, 1, NullCode}

\* History: unit i of run r has a step that did not succeed.
NoteBad(r) == [loops EXCEPT ![r].badUnits = @ \cup {loops[r].i}]

\* logs:clearRealtime: answers { success } whether or not the write worked.
MainClearRealtime ==
    /\ toMain # <<>>
    /\ Head(toMain).kind = "clear"
    /\ toMain' = Tail(toMain)
    /\ fromMain' = Append(fromMain, [kind |-> "clearReply", id |-> Head(toMain).id,
                                     success |-> disk.live])
    /\ UNCHANGED <<isRunning, currentScriptIndex, scriptResults, isCancelled, loops,
                   confirmOpen, currentPythonProcess, procs, zombies, cancels, killTimers,
                   historyLog, envVars>>
    /\ liveLog' = ClearRealtimeLog(liveLog, disk.live)

\* python:runScript, lines 402-406: main.py does not exist.
MainRunScriptMissing ==
    /\ toMain # <<>>
    /\ Head(toMain).kind = "run"
    /\ LET r == Head(toMain).id IN
       /\ procs' = [procs EXCEPT ![r] = NoInvocation]
       /\ loops' = NoteBad(r)
       /\ fromMain' = Append(fromMain, [kind |-> "reject", id |-> r,
                                        error |-> ScriptMissingError])
    /\ toMain' = Tail(toMain)
    /\ UNCHANGED <<isRunning, currentScriptIndex, scriptResults, isCancelled,
                   confirmOpen, currentPythonProcess, zombies, cancels, killTimers,
                   logVars, envVars>>

\* python:runScript, lines 408-448: spawn; spawned tells whether the
\* interpreter could be started (else an 'error' event follows).
MainRunScriptSpawn(spawned) ==
    /\ toMain # <<>>
    /\ Head(toMain).kind = "run"
    /\ LET r == Head(toMain).id IN
       /\ procs' = [procs EXCEPT ![r].st = IF spawned THEN "alive" ELSE "failing"]
       /\ currentPythonProcess' = r
    /\ toMain' = Tail(toMain)
    /\ UNCHANGED <<isRunning, currentScriptIndex, scriptResults, isCancelled, loops,
                   confirmOpen, fromMain, zombies, cancels, killTimers,
                   liveLog, envVars>>
    /\ historyLog' = AddLogToFile(historyLog, disk.history)

\* A process whose output may still arrive after its 'close' event.
ProcDataAfterClose(r, stream, text) ==
    /\ procs[r].st \in {"alive", "closed"}
    /\ procs' = [procs EXCEPT ![r] =
                   IF stream = "stdout"
                   THEN [@ EXCEPT !.output = @ \o text]
                   ELSE [@ EXCEPT !.errorOutput = @ \o text]]
    /\ UNCHANGED <<isRunning, currentScriptIndex, scriptResults, isCancelled, loops,
                   confirmOpen, toMain, fromMain, currentPythonProcess, zombies,
                   cancels, killTimers,
                   disk, canRun, notice, form, heap, edits, restarts>>
    /\ historyLog' = AddLogToFile(historyLog, disk.history)
    /\ liveLog' = WriteRealtimeLog(liveLog, disk.live, StepName(loops[r].sel, loops[r].i, loops[r].j),
                                   stream, text)

\* stdout / stderr 'data' handlers, lines 454-491.
ProcData(r, stream, text) ==
    /\ procs[r].st = "alive"
    /\ procs' = [procs EXCEPT ![r] =
                   IF stream = "stdout"
                   THEN [@ EXCEPT !.output = @ \o text]
                   ELSE [@ EXCEPT !.errorOutput = @ \o text]]
    /\ UNCHANGED <<isRunning, currentScriptIndex, scriptResults, isCancelled, loops,
                   confirmOpen, toMain, fromMain, currentPythonProcess, zombies,
                   cancels, killTimers,
                   disk, canRun, notice, form, heap, edits, restarts>>
    /\ historyLog' = AddLogToFile(historyLog, disk.history)
    /\ liveLog' = WriteRealtimeLog(liveLog, disk.live, StepName(loops[r].sel, loops[r].i, loops[r].j),
                                   stream, text)

\* A chunk chosen freely, at most MaxChunks per process.
ProcOutput(r, stream, text) ==
    /\ Len(procs[r].output) + Len(procs[r].errorOutput) < MaxChunks
    /\ ProcData(r, stream, text)
    /\ UNCHANGED feed

\* The next chunk of the first step's output arrives on stdout.
ProcFeed(r) ==
    /\ feed.rest # <<>>
    /\ loops[r].i = 0
    /\ ProcData(r, "stdout", Head(feed.rest))
    /\ feed' = [feed EXCEPT !.rest = Tail(@)]

\* 'close' handler, lines 494-517, of a process that had been started.
ProcClose(r, code) ==
    /\ procs[r].st = "alive"
    /\ currentPythonProcess' = NoProcess
    /\ procs' = [procs EXCEPT ![r].st = "closed", ![r].code = code,
                              \* the ChildProcess object is gone
                              ![r].signalled = FALSE, ![r].killed = FALSE,
                              ![r].forced = FALSE]
    /\ loops' = IF code # 0 THEN NoteBad(r) ELSE loops
    /\ fromMain' = Append(fromMain,
                          [kind |-> "resolve", id |-> r,
                           result |-> CloseResult(code, procs[r].output,
                                                  procs[r].errorOutput)])
    /\ UNCHANGED <<isRunning, currentScriptIndex, scriptResults, isCancelled,
                   confirmOpen, toMain, zombies, cancels, killTimers,
                   liveLog, envVars>>
    /\ historyLog' = AddLogToFile(historyLog, disk.history)

\* An 'error' handler that logs and leaves the invocation unsettled.
ProcErrorLeavesPending(r) ==
    /\ procs[r].st = "failing"
    /\ procs' = [procs EXCEPT ![r] = NoInvocation]
    /\ zombies' = zombies + 1
    /\ currentPythonProcess' = IF currentPythonProcess = r THEN Zombie
                               ELSE currentPythonProcess
    /\ historyLog' = AddLogToFile(historyLog, disk.history)
    /\ UNCHANGED <<isRunning, currentScriptIndex, scriptResults, isCancelled, loops,
                   confirmOpen, toMain, fromMain, cancels, killTimers,
                   liveLog, envVars>>

\* 'error' handler, lines 520-524: the spawn failed.  The ChildProcess
\* object stays behind until its 'close' event.
ProcError(r) ==
    /\ procs[r].st = "failing"
    /\ procs' = [procs EXCEPT ![r] = NoInvocation]
    /\ zombies' = zombies + 1
    /\ currentPythonProcess' = IF currentPythonProcess = r THEN Zombie
                               ELSE currentPythonProcess
    /\ loops' = NoteBad(r)
    /\ fromMain' = Append(fromMain, [kind |-> "reject", id |-> r,
                                     error |-> SpawnFailedError])
    /\ UNCHANGED <<isRunning, currentScriptIndex, scriptResults, isCancelled,
                   confirmOpen, toMain, cancels, killTimers,
                   liveLog, envVars>>
    /\ historyLog' = AddLogToFile(historyLog, disk.history)

\* 'close' handler after a failed spawn: the promise is already rejected, so
\* resolve() has no effect; the reference is cleared.
ProcCloseAfterError ==
    /\ zombies > 0
    /\ zombies' = zombies - 1
    /\ currentPythonProcess' = NoProcess
    /\ UNCHANGED <<isRunning, currentScriptIndex, scriptResults, isCancelled, loops,
                   confirmOpen, toMain, fromMain, procs, cancels, killTimers,
                   liveLog, envVars>>
    /\ historyLog' = AddLogToFile(historyLog, disk.history)

\* python:cancelScript, lines 609-659.  On a reference to a process that
\* never started, win32 throws on pid.toString() (answer: failure) while
\* elsewhere kill() returns false and the answer is success.
MainCancelScript(win32) ==
    /\ toMain # <<>>
    /\ Head(toMain).kind = "cancel"
    /\ toMain' = Tail(toMain)
    /\ LET cur == currentPythonProcess IN
       IF cur \in RunIds /\ procs[cur].st = "alive"
       THEN \* taskkill /F /T, or kill("SIGTERM") (which sets .killed) and the timer
            /\ procs' = [procs EXCEPT ![cur].signalled = TRUE,
                                      ![cur].killed = ~win32,
                                      ![cur].forced = win32]
            /\ killTimers' = IF win32 THEN killTimers
                             ELSE Append(killTimers,
                                         [target |-> cur,
                                          step |-> <<loops[cur].i, loops[cur].j>>])
            /\ loops' = [loops EXCEPT ![cur].killedUnit =
                                          IF @ = -1 THEN loops[cur].i ELSE @]
            /\ fromMain' = Append(fromMain, [kind |-> "cancelReply", success |-> TRUE,
                                             idle |-> Head(toMain).idle])
       ELSE IF cur # NoProcess
       THEN \* a ChildProcess that never started: kill() returns false
            /\ UNCHANGED <<procs, loops>>
            /\ killTimers' = IF win32 THEN killTimers
                             ELSE Append(killTimers, [target |-> cur, step |-> <<-1, -1>>])
            /\ fromMain' = Append(fromMain, [kind |-> "cancelReply", success |-> ~win32,
                                             idle |-> Head(toMain).idle])
       ELSE /\ UNCHANGED <<procs, loops, killTimers>>
            /\ fromMain' = Append(fromMain, [kind |-> "cancelReply", success |-> FALSE,
                                             idle |-> Head(toMain).idle])
    /\ UNCHANGED <<isRunning, currentScriptIndex, scriptResults, isCancelled,
                   confirmOpen, currentPythonProcess, zombies, cancels,
                   liveLog, envVars>>
    /\ historyLog' = AddLogToFile(historyLog, disk.history)

\* The setTimeout callback of python:cancelScript, lines 634-638: SIGKILL to
\* whatever currentPythonProcess refers to then, unless its .killed is set.
\* target and step are history: the process the SIGTERM of that cancel was
\* sent to (the run it belongs to and the step it executes).
KillTimerFires ==
    /\ killTimers # <<>>
    /\ killTimers' = Tail(killTimers)
    /\ LET cur == currentPythonProcess IN
       IF cur \in RunIds /\ procs[cur].st = "alive" /\ ~procs[cur].killed
       THEN procs' = [procs EXCEPT ![cur].killed = TRUE, ![cur].forced = TRUE]
       ELSE procs' = procs
    /\ UNCHANGED <<isRunning, currentScriptIndex, scriptResults, isCancelled, loops,
                   confirmOpen, toMain, fromMain, currentPythonProcess, zombies,
                   cancels,
                   logVars, envVars>>

(* ------------------------------ the form ------------------------------ *)
\* The inputs of the form are disabled while isRunning (index.vue template,
\* :disabled="isRunning").
\* entry.vue onInputFolderChange -> index.vue onInputFolderChange.
EditInputFolder(value) ==
    /\ ~isRunning
    /\ edits < MaxEdits
    /\ value # form.inputFolder
    /\ form' = [form EXCEPT !.inputFolder = value]
    /\ edits' = edits + 1
    /\ UNCHANGED <<isRunning, currentScriptIndex, scriptResults, isCancelled,
                   loops, confirmOpen, toMain, fromMain, currentPythonProcess,
                   procs, zombies, cancels, killTimers, logVars,
                   disk, canRun, notice, heap, restarts, feed>>

\* output.vue -> index.vue onOutputFolderChange.
EditOutputFolder(value) ==
    /\ ~isRunning
    /\ edits < MaxEdits
    /\ value # form.outputFolder
    /\ form' = [form EXCEPT !.outputFolder = value]
    /\ edits' = edits + 1
    /\ UNCHANGED <<isRunning, currentScriptIndex, scriptResults, isCancelled,
                   loops, confirmOpen, toMain, fromMain, currentPythonProcess,
                   procs, zombies, cancels, killTimers, logVars,
                   disk, canRun, notice, heap, restarts, feed>>

\* entry.vue line 154, v-model="chipConfig[configItem.key]": typing into a
\* chip field writes into the object chipConfig refers to.
EditChipField(value) ==
    /\ ~isRunning
    /\ edits < MaxEdits
    /\ value # heap[form.chipConfig]
    /\ heap' = [heap EXCEPT ![form.chipConfig] = value]
    /\ edits' = edits + 1
    /\ UNCHANGED <<isRunning, currentScriptIndex, scriptResults, isCancelled,
                   loops, confirmOpen, toMain, fromMain, currentPythonProcess,
                   procs, zombies, cancels, killTimers, logVars,
                   disk, canRun, notice, form, restarts, feed>>

\* entry.vue onChipReferenceChange, lines 535-554: a new object is assigned
\* and emitted; index.vue onChipConfigChange stores it.
SelectChip(value) ==
    /\ ~isRunning
    /\ edits < MaxEdits
    /\ \E o \in ChipObjects :
          /\ o # form.chipConfig
          /\ \A r \in RunIds : loops[r].snapshot.chipConfig # o
          /\ form' = [form EXCEPT !.chipConfig = o]
          /\ heap' = [heap EXCEPT ![o] = value]
    /\ edits' = edits + 1
    /\ UNCHANGED <<isRunning, currentScriptIndex, scriptResults, isCancelled,
                   loops, confirmOpen, toMain, fromMain, currentPythonProcess,
                   procs, zombies, cancels, killTimers, logVars,
                   disk, canRun, notice, restarts, feed>>

(* ------------------------- log page, disk, app ------------------------- *)
\* log.vue, clearPageLogsOnly (lines 387-400): the clear button, confirmed.
\* The button is enabled at all times; one request is followed at a time.
LogClearClick ==
    /\ ~confirmOpen
    /\ \A k \in 1..Len(toMain) : toMain[k].kind # "clearFile"
    /\ \A k \in 1..Len(fromMain) : fromMain[k].kind # "clearFileReply"
    /\ toMain' = Append(toMain, [kind |-> "clearFile", id |-> 0])
    /\ UNCHANGED <<isRunning, currentScriptIndex, scriptResults, isCancelled, loops,
                   confirmOpen, fromMain, currentPythonProcess, procs, zombies,
                   cancels, killTimers, logVars, envVars>>

\* A handler that empties the history file as well.
MainClearFileEmptiesHistory ==
    /\ toMain # <<>>
    /\ Head(toMain).kind = "clearFile"
    /\ toMain' = Tail(toMain)
    /\ liveLog' = ClearRealtimeLog(liveLog, disk.live)
    /\ historyLog' = 0
    /\ fromMain' = Append(fromMain, [kind |-> "clearFileReply", id |-> 0,
                                     success |-> disk.live])
    /\ UNCHANGED <<isRunning, currentScriptIndex, scriptResults, isCancelled, loops,
                   confirmOpen, currentPythonProcess, procs, zombies,
                   cancels, killTimers, envVars>>

\* logs:clearFile, lines 544-555: clears the live log file.
MainClearFile ==
    /\ toMain # <<>>
    /\ Head(toMain).kind = "clearFile"
    /\ toMain' = Tail(toMain)
    /\ liveLog' = ClearRealtimeLog(liveLog, disk.live)
    /\ fromMain' = Append(fromMain, [kind |-> "clearFileReply", id |-> 0,
                                     success |-> disk.live])
    /\ UNCHANGED <<isRunning, currentScriptIndex, scriptResults, isCancelled, loops,
                   confirmOpen, currentPythonProcess, procs, zombies,
                   cancels, killTimers, historyLog, envVars>>

\* clearPageLogsOnly after the await (lines 400-413): page-local effects only.
RecvClearFileReply ==
    /\ fromMain # <<>>
    /\ Head(fromMain).kind = "clearFileReply"
    /\ fromMain' = Tail(fromMain)
    /\ UNCHANGED <<isRunning, currentScriptIndex, scriptResults, isCancelled, loops,
                   confirmOpen, toMain, currentPythonProcess, procs, zombies,
                   cancels, killTimers, logVars, envVars>>

\* A log file stops being writable (fs.appendFileSync / writeFileSync throw).
DiskFault(file) ==
    /\ disk[file]
    /\ disk' = [disk EXCEPT ![file] = FALSE]
    /\ UNCHANGED <<isRunning, currentScriptIndex, scriptResults, isCancelled, loops,
                   confirmOpen, toMain, fromMain, currentPythonProcess, procs,
                   zombies, cancels, killTimers, logVars,
                   canRun, notice, form, heap, edits, restarts, feed>>

\* The application is closed and started again (main, lines 701-711): the
\* window-all-closed, before-quit and start-up entries are appended; the
\* state in memory is lost, the files stay.
AppRestart ==
    /\ restarts < MaxRestarts
    /\ restarts' = restarts + 1
    /\ historyLog' = AddLogToFile(AddLogToFile(AddLogToFile(historyLog, disk.history),
                                                disk.history), disk.history)
    /\ isRunning' = FALSE
    /\ currentScriptIndex' = -1
    /\ scriptResults' = EmptyMap
    /\ isCancelled' = FALSE
    /\ loops' = [r \in RunIds |-> FreeLoop]
    /\ confirmOpen' = FALSE
    /\ toMain' = <<>>
    /\ fromMain' = <<>>
    /\ currentPythonProcess' = NoProcess
    /\ procs' = [r \in RunIds |-> NoInvocation]
    /\ zombies' = 0
    /\ killTimers' = <<>>
    /\ canRun' = TRUE
    /\ notice' = "none"
    /\ form' = FirstForm
    /\ heap' = FirstHeap
    /\ UNCHANGED <<cancels, liveLog, disk, edits, feed>>

(* ------------------------------- Next ---------------------------------- *)
\* Runs and cancel requests in every interleaving, with step processes that
\* print nothing (the runs with output are those of NextSeq and NextLog).
Next ==
    \/ \E r \in RunIds, sel \in Selections : RunClick(r, sel)
    \/ RecvClearReply
    \/ RecvRunResolve
    \/ RecvRunReject
    \/ \E r \in RunIds : NotifyDone(r)
    \/ CancelClick
    \/ CancelDismiss
    \/ CancelConfirm
    \/ RecvCancelReply
    \/ MainClearRealtime
    \/ MainRunScriptMissing
    \/ \E spawned \in BOOLEAN : MainRunScriptSpawn(spawned)
    \/ \E r \in RunIds, code \in ExitCodes : ProcClose(r, code)
    \/ \E r \in RunIds : ProcError(r)
    \/ ProcCloseAfterError
    \/ \E win32 \in BOOLEAN : MainCancelScript(win32)
    \/ KillTimerFires

Spec == Init /\ [][Next]_vars

\* The runs in which the cancel button is never used.
NextSeq ==
    \/ \E r \in RunIds, sel \in SeqSelections : RunClick(r, sel)
    \/ RecvClearReply
    \/ RecvRunResolve
    \/ RecvRunReject
    \/ \E r \in RunIds : NotifyDone(r)
    \/ MainClearRealtime
    \/ MainRunScriptMissing
    \/ \E spawned \in BOOLEAN : MainRunScriptSpawn(spawned)
    \/ \E r \in RunIds, text \in StdoutTexts : ProcOutput(r, "stdout", text)
    \/ \E r \in RunIds, text \in StderrTexts : ProcOutput(r, "stderr", text)
    \/ \E r \in RunIds, code \in ExitCodes : ProcClose(r, code)
    \/ \E r \in RunIds : ProcError(r)
    \/ ProcCloseAfterError

SpecSeq == Init /\ [][NextSeq]_vars

\* The event loops of the two processes run every handler whose event is
\* pending, messages between them are delivered, timers fire, the
\* notification permission is answered without a prompt, and every process
\* that was started closes and every failed start emits 'error'.  Nothing
\* is assumed of the user.
Fairness ==
    /\ WF_vars(MainClearRealtime)
    /\ WF_vars(MainRunScriptMissing \/ \E spawned \in BOOLEAN : MainRunScriptSpawn(spawned))
    /\ WF_vars(\E win32 \in BOOLEAN : MainCancelScript(win32))
    /\ WF_vars(KillTimerFires)
    /\ WF_vars(RecvClearReply)
    /\ WF_vars(RecvRunResolve)
    /\ WF_vars(RecvRunReject)
    /\ WF_vars(RecvCancelReply)
    /\ WF_vars(ProcCloseAfterError)
    /\ \A r \in RunIds :
          /\ WF_vars(NotifyDone(r))
          /\ WF_vars(\E code \in ExitCodes : ProcClose(r, code))
          /\ WF_vars(ProcError(r))

\* Runs and cancel requests as in Next, of the pipeline of two members.
NextLive ==
    \/ \E r \in RunIds : RunClick(r, PipelineXY)
    \/ RecvClearReply
    \/ RecvRunResolve
    \/ RecvRunReject
    \/ \E r \in RunIds : NotifyDone(r)
    \/ CancelClick
    \/ CancelDismiss
    \/ CancelConfirm
    \/ RecvCancelReply
    \/ MainClearRealtime
    \/ MainRunScriptMissing
    \/ \E spawned \in BOOLEAN : MainRunScriptSpawn(spawned)
    \/ \E r \in RunIds, code \in ExitCodes : ProcClose(r, code)
    \/ \E r \in RunIds : ProcError(r)
    \/ ProcCloseAfterError
    \/ \E win32 \in BOOLEAN : MainCancelScript(win32)
    \/ KillTimerFires

SpecLive == Init /\ [][NextLive]_vars /\ Fairness

\* Runs and cancel requests as in Next, and a user who edits the form
\* whenever its inputs are enabled.
NextEdit ==
    \/ \E r \in RunIds : RunClick(r, TwoSingles)
    \/ RecvClearReply
    \/ RecvRunResolve
    \/ RecvRunReject
    \/ \E r \in RunIds : NotifyDone(r)
    \/ CancelClick
    \/ CancelDismiss
    \/ CancelConfirm
    \/ RecvCancelReply
    \/ MainClearRealtime
    \/ MainRunScriptMissing
    \/ \E spawned \in BOOLEAN : MainRunScriptSpawn(spawned)
    \/ \E r \in RunIds, code \in ExitCodes : ProcClose(r, code)
    \/ \E r \in RunIds : ProcError(r)
    \/ ProcCloseAfterError
    \/ \E win32 \in BOOLEAN : MainCancelScript(win32)
    \/ KillTimerFires
    \/ \E value \in FolderNames : EditInputFolder(value)
    \/ \E value \in FolderNames : EditOutputFolder(value)
    \/ \E value \in ChipNames : EditChipField(value)
    \/ \E value \in ChipNames : SelectChip(value)

SpecEdit == Init /\ [][NextEdit]_vars

\* Run requests delivered to onRunScripts itself, with a form that may be
\* invalid and a selection that may be empty; no cancel requests.
NextForm ==
    \/ \E r \in RunIds, sel \in Selections \cup {<<>>} : RunRequest(r, sel)
    \/ FormChange
    \/ RecvClearReply
    \/ RecvRunResolve
    \/ RecvRunReject
    \/ \E r \in RunIds : NotifyDone(r)
    \/ MainClearRealtime
    \/ MainRunScriptMissing
    \/ \E spawned \in BOOLEAN : MainRunScriptSpawn(spawned)
    \/ \E r \in RunIds, text \in StdoutTexts : ProcOutput(r, "stdout", text)
    \/ \E r \in RunIds, text \in StderrTexts : ProcOutput(r, "stderr", text)
    \/ \E r \in RunIds, code \in ExitCodes : ProcClose(r, code)
    \/ \E r \in RunIds : ProcError(r)
    \/ ProcCloseAfterError

SpecForm == Init /\ [][NextForm]_vars

\* One run of two single steps; the first step prints the text of feed in
\* the chunks of feed.
NextLines ==
    \/ RunClick(1, TwoSingles)
    \/ RecvClearReply
    \/ RecvRunResolve
    \/ RecvRunReject
    \/ \E r \in RunIds : NotifyDone(r)
    \/ MainClearRealtime
    \/ MainRunScriptMissing
    \/ \E spawned \in BOOLEAN : MainRunScriptSpawn(spawned)
    \/ \E r \in RunIds : ProcFeed(r)
    \/ \E r \in RunIds, code \in ExitCodes : ProcClose(r, code)
    \/ \E r \in RunIds : ProcError(r)
    \/ ProcCloseAfterError

SpecLines == InitLines /\ [][NextLines]_vars

\* One run at a time, with output, cancel requests, the log page's clear
\* action and application restarts.
NextLog ==
    \/ \E sel \in Selections : RunClick(1, sel)
    \/ RecvClearReply
    \/ RecvRunResolve
    \/ RecvRunReject
    \/ \E r \in RunIds : NotifyDone(r)
    \/ CancelClick
    \/ CancelDismiss
    \/ CancelConfirm
    \/ RecvCancelReply
    \/ MainClearRealtime
    \/ MainRunScriptMissing
    \/ \E spawned \in BOOLEAN : MainRunScriptSpawn(spawned)
    \/ \E r \in RunIds, text \in StdoutTexts : ProcOutput(r, "stdout", text)
    \/ \E r \in RunIds, text \in StderrTexts : ProcOutput(r, "stderr", text)
    \/ \E r \in RunIds, code \in ExitCodes : ProcClose(r, code)
    \/ \E r \in RunIds : ProcError(r)
    \/ ProcCloseAfterError
    \/ \E win32 \in BOOLEAN : MainCancelScript(win32)
    \/ KillTimerFires
    \/ LogClearClick
    \/ MainClearFile
    \/ RecvClearFileReply
    \/ AppRestart

SpecLog == Init /\ [][NextLog]_vars

\* One run at a time, with output and cancel requests, while the log files
\* may stop being writable at any moment.
NextDisk ==
    \/ \E sel \in Selections : RunClick(1, sel)
    \/ RecvClearReply
    \/ RecvRunResolve
    \/ RecvRunReject
    \/ \E r \in RunIds : NotifyDone(r)
    \/ CancelClick
    \/ CancelDismiss
    \/ CancelConfirm
    \/ RecvCancelReply
    \/ MainClearRealtime
    \/ MainRunScriptMissing
    \/ \E spawned \in BOOLEAN : MainRunScriptSpawn(spawned)
    \/ \E r \in RunIds, text \in StdoutTexts : ProcOutput(r, "stdout", text)
    \/ \E r \in RunIds, text \in StderrTexts : ProcOutput(r, "stderr", text)
    \/ \E r \in RunIds, code \in ExitCodes : ProcClose(r, code)
    \/ \E r \in RunIds : ProcError(r)
    \/ ProcCloseAfterError
    \/ \E win32 \in BOOLEAN : MainCancelScript(win32)
    \/ KillTimerFires
    \/ \E file \in {"live", "history"} : DiskFault(file)

SpecDisk == Init /\ [][NextDisk]_vars

TypeOK ==
    /\ isRunning \in BOOLEAN
    /\ isCancelled \in BOOLEAN
    /\ currentScriptIndex \in -1..3
    /\ currentPythonProcess \in {NoProcess, Zombie} \cup RunIds

(* ------------------------------ claims --------------------------------- *)
\* The step processes that are running.
InFlight == {r \in RunIds : procs[r].st = "alive"}

\* C1: at no point are two step processes in flight at once.
C1_OneProcessAtATime == Cardinality(InFlight) <= 1

\* C2: a run in which cancel was requested while a step of unit i was
\* executing never starts a step of unit i+1 or of a later unit.
C2_NoLaterUnitAfterCancel ==
    \A r \in RunIds :
        (loops[r].askedAt.st = "alive" /\ loops[r].pc = "awaiting")
            => loops[r].i <= loops[r].askedAt.unit

\* The same, for a cancel that reached the main process while the step of
\* unit i was still running (its process was signalled).
C2_NoLaterUnitAfterKill ==
    \A r \in RunIds :
        (loops[r].killedUnit # -1 /\ loops[r].pc = "awaiting")
            => loops[r].i <= loops[r].killedUnit

\* The step names of a selection, pipelines expanded in place.
RECURSIVE Expand(_)
Expand(sel) ==
    IF sel = <<>> THEN <<>>
    ELSE (IF IsPipeline(Head(sel)) THEN Head(sel).scripts ELSE <<Head(sel).name>>)
         \o Expand(Tail(sel))

IsPrefix(s, t) == Len(s) <= Len(t) /\ SubSeq(t, 1, Len(s)) = s

\* C3: with no cancellation, the step names launched are the selected units
\* in order, pipelines expanded in place: a prefix of them while the run lasts,
\* all of them when the loop is left.
C3_LaunchedInOrder ==
    cancels = 0 =>
        \A r \in RunIds :
            /\ loops[r].pc \in {"clearing", "awaiting"}
                   => IsPrefix(loops[r].launched, Expand(loops[r].sel))
            /\ loops[r].pc = "awaiting" => loops[r].launched # <<>>
            /\ loops[r].pc = "notifying"
                   => loops[r].launched = Expand(loops[r].sel)

C3_Witness ==
    \E r \in RunIds :
        /\ loops[r].pc = "notifying"
        /\ loops[r].sel = PipelineABC
        /\ loops[r].cls = "failed"
        /\ loops[r].launched = <<"A", "B", "C">>

\* C4: with no cancellation, when the loop is left every selected unit has an
\* outcome, and a unit's outcome is a failure exactly when one of its own
\* steps failed.
C4_EveryUnitHasOutcome ==
    cancels = 0 =>
        \A r \in RunIds :
            loops[r].pc = "notifying" =>
                \A k \in 1..Len(loops[r].sel) :
                    LET key == UnitKey(loops[r].sel[k]) IN
                    /\ key \in DOMAIN scriptResults
                    /\ scriptResults[key].success <=> (k - 1) \notin loops[r].badUnits

C4_Witness ==
    \E r \in RunIds :
        /\ loops[r].pc = "notifying"
        /\ loops[r].sel = TwoSingles
        /\ loops[r].badUnits = {0}
        /\ scriptResults[SingleKey(TwoSingles[2])].success

\* C5: a pipeline [A, B, C] in which A succeeds and B fails ends with
\* success = false, an error naming B with B's error, and the outcomes of
\* A, B, C in that order, whatever C's result.
C5_ErrorNamesFirstFailure ==
    \A r \in RunIds :
        (loops[r].pc = "notifying" /\ loops[r].sel = PipelineABC /\ cancels = 0) =>
            LET g == scriptResults[GroupKey(PipelineABC[1])]
                subs == g.subScripts
            IN  (Len(subs) = 3 /\ subs[1].success /\ ~subs[2].success) =>
                    /\ ~g.success
                    /\ g.error = SubScriptError("B", subs[2].error)
                    /\ <<subs[1].name, subs[2].name, subs[3].name>> = <<"A", "B", "C">>

\* C6: in every state a Grouped Outcome's success flag is the conjunction of
\* the success flags of the member outcomes recorded in it so far.
C6_GroupSuccessIsConjunction ==
    \A key \in DOMAIN scriptResults :
        scriptResults[key].hasSubScripts =>
            (scriptResults[key].success <=>
                \A k \in 1..Len(scriptResults[key].subScripts) :
                    scriptResults[key].subScripts[k].success)

\* A group whose first recorded member threw and whose second succeeded.
C6_Witness ==
    \E key \in DOMAIN scriptResults :
        /\ scriptResults[key].hasSubScripts
        /\ Len(scriptResults[key].subScripts) = 2
        /\ scriptResults[key].subScripts[1].code = -1
        /\ scriptResults[key].subScripts[2].success
        /\ ~scriptResults[key].success

Last(s) == s[Len(s)]

\* C7: when a step process closes, the invocation resolves with success
\* exactly when the exit code is 0, with the real exit code and, on a failure,
\* the captured stderr text as error; and when that reply reaches a single
\* step's loop with no cancellation pending, exactly that outcome is stored
\* under the unit's key.
C7_OutcomeMatchesExit ==
    [][\A r \in RunIds :
          /\ (procs[r].st = "alive" /\ procs'[r].st = "closed") =>
                LET m == Last(fromMain') IN
                /\ Len(fromMain') = Len(fromMain) + 1
                /\ m.kind = "resolve" /\ m.id = r
                /\ m.result.success <=> (procs'[r].code = 0)
                /\ m.result.code = procs'[r].code
                /\ m.result.output = procs[r].output
                /\ procs'[r].code # 0 => m.result.error = procs[r].errorOutput
          /\ (/\ procs[r].st = "closed" /\ procs'[r].st # "closed"
              /\ ~isCancelled
              /\ ~IsPipeline(loops[r].sel[loops[r].i + 1])) =>
                LET key == SingleKey(loops[r].sel[loops[r].i + 1]) IN
                /\ key \in DOMAIN scriptResults'
                /\ scriptResults'[key].success <=> (procs[r].code = 0)
                /\ scriptResults'[key].code = procs[r].code
                /\ scriptResults'[key].output = procs[r].output
                /\ procs[r].code # 0 => scriptResults'[key].error = procs[r].errorOutput
      ]_vars

\* decompress succeeded; gen_html exited with 1 and stderr "template missing".
C7_Witness ==
    /\ SingleKey(TwoSingles[1]) \in DOMAIN scriptResults
    /\ SingleKey(TwoSingles[2]) \in DOMAIN scriptResults
    /\ scriptResults[SingleKey(TwoSingles[1])].success
    /\ ~scriptResults[SingleKey(TwoSingles[2])].success
    /\ scriptResults[SingleKey(TwoSingles[2])].code = 1
    /\ scriptResults[SingleKey(TwoSingles[2])].error = <<"template missing">>

EndsWith(s, t) == Len(t) <= Len(s) /\ SubSeq(s, Len(s) - Len(t) + 1, Len(s)) = t

\* C8: when the rejection of an invocation that could not be started reaches
\* the loop with no cancellation pending, a failed outcome with code -1 and
\* the launch error text is recorded for that step, and the loop goes on to
\* the next member or unit (or leaves the loop behind the last one).
C8_LaunchFailureRecorded ==
    [][(/\ fromMain # <<>>
        /\ Head(fromMain).kind = "reject"
        /\ fromMain' = Tail(fromMain)
        /\ ~isCancelled) =>
          LET m == Head(fromMain)
              r == m.id
              l == loops[r]
              script == l.sel[l.i + 1]
              all == Expand(l.sel)
          IN  /\ IF IsPipeline(script)
                 THEN /\ GroupKey(script) \in DOMAIN scriptResults'
                      /\ LET subs == scriptResults'[GroupKey(script)].subScripts IN
                         /\ subs # <<>>
                         /\ Last(subs).name = StepName(l.sel, l.i, l.j)
                         /\ ~Last(subs).success
                         /\ Last(subs).code = -1
                         /\ EndsWith(Last(subs).error, m.error)
                 ELSE /\ SingleKey(script) \in DOMAIN scriptResults'
                      /\ LET o == scriptResults'[SingleKey(script)] IN
                         /\ ~o.success
                         /\ o.code = -1
                         /\ EndsWith(o.error, m.error)
              /\ IF Len(l.launched) < Len(all)
                 THEN /\ loops'[r].pc = "awaiting"
                      /\ loops'[r].launched = SubSeq(all, 1, Len(l.launched) + 1)
                 ELSE loops'[r].pc = "notifying"
      ]_vars

\* x could not be started, its failure is recorded, and y has been launched.
C8_Witness ==
    \E r \in RunIds :
        /\ loops[r].pc = "awaiting"
        /\ loops[r].sel = PipelineXY
        /\ loops[r].launched = <<"x", "y">>
        /\ GroupKey(PipelineXY[1]) \in DOMAIN scriptResults
        /\ scriptResults[GroupKey(PipelineXY[1])].subScripts[1].code = -1

\* C9: when the loop is left the run is classified as cancelled whenever the
\* cancelled flag was set during the run; otherwise as failed, naming exactly
\* the selected units whose recorded outcome is a failure, if there is one;
\* otherwise as succeeded.
C9_ClassifiedAtFinishing ==
    [][\A r \in RunIds :
          (loops[r].pc \in {"clearing", "awaiting"}
             /\ loops'[r].pc \in {"notifying", "done"}) =>
                IF loops[r].flagSeen
                THEN loops'[r].cls = "cancelled"
                ELSE LET bad == {k \in 1..Len(loops[r].sel) :
                                    /\ UnitKey(loops[r].sel[k]) \in DOMAIN scriptResults'
                                    /\ ~scriptResults'[UnitKey(loops[r].sel[k])].success}
                     IN  /\ loops'[r].cls = IF bad # {} THEN "failed" ELSE "succeeded"
                         /\ {loops'[r].failed[n] : n \in 1..Len(loops'[r].failed)}
                               = {loops[r].sel[k].name : k \in bad}
      ]_vars

\* C10: in a run of the pipeline [x, y], after a cancel requested when x was
\* recorded and y not yet started by the main process, y is never started,
\* and the run ends cancelled with exactly the outcome of x recorded and
\* running false.
C10_CancelBetweenMembers ==
    [][\A r \in RunIds :
          (/\ loops[r].sel = PipelineXY
           /\ loops[r].askedAt = [unit |-> 0, member |-> 1, st |-> "sent"]
           /\ loops[r].badUnits = {}) =>
              /\ procs'[r].st # "alive"
              /\ loops'[r].pc # "notifying"
              /\ loops'[r].pc = "done" =>
                    /\ loops'[r].cls = "cancelled"
                    /\ ~isRunning'
                    /\ GroupKey(PipelineXY[1]) \in DOMAIN scriptResults'
                    /\ Len(scriptResults'[GroupKey(PipelineXY[1])].subScripts) = 1
      ]_vars

\* C11: a cancel made and handled while no run is active is answered with
\* success = false and an error, signals no process, and its reply leaves
\* running, currentUnitIndex, results and cancelled as they were.
C11_IdleCancelChangesNothing ==
    [][NoRunActive =>
          /\ (toMain # <<>> /\ Head(toMain).kind = "cancel" /\ Head(toMain).idle
                /\ toMain' = Tail(toMain)) =>
                /\ ~Last(fromMain').success
                /\ procs' = procs
          /\ (fromMain # <<>> /\ Head(fromMain).kind = "cancelReply"
                /\ Head(fromMain).idle /\ fromMain' = Tail(fromMain)) =>
                UNCHANGED <<isRunning, currentScriptIndex, scriptResults, isCancelled>>
      ]_vars

\* C12: when the grace timer of a cancel fires and the process that was sent
\* the graceful signal has still not exited, a forceful kill is delivered
\* to it.
C12_KillEscalates ==
    [][(killTimers # <<>> /\ killTimers' = Tail(killTimers)) =>
          LET r == Head(killTimers).target IN
          (r \in RunIds /\ procs[r].st = "alive" /\ procs[r].signalled)
              => procs'[r].forced
      ]_vars

\* C13: once a run has truncated the live log at its start, the live log
\* never gets shorter until that run has ended.
C13_LiveLogGrowsDuringRun ==
    [][(\E r \in RunIds : /\ loops[r].pc \in {"awaiting", "notifying"}
                          /\ loops'[r].pc \in {"awaiting", "notifying", "done"})
          => Len(liveLog') >= Len(liveLog)
      ]_vars

\* C14: once a step has printed its whole output, in whatever chunks, the
\* live log holds exactly one entry per non-blank line of that output, each
\* with the step's name, the stream's kind and a timestamp.
C14_OneEntryPerLine ==
    (feed.rest = <<>> /\ loops[1].pc = "awaiting" /\ loops[1].i = 0
        /\ procs[1].st = "alive")
        => liveLog = AppendLines(<<>>, "decompress", "stdout", SplitLines(feed.text))

\* C15: while a log file cannot be written, (a) the reply to the clearing of
\* the live log at run start still leads to the launch of the first step,
\* (b) a process that closes still resolves its invocation with the outcome
\* of its exit code, and (c) an invocation is rejected only when main.py is
\* missing or the process could not be started.
C15_LogFailureIsCaught ==
    [][(~disk.live \/ ~disk.history) =>
          /\ (fromMain # <<>> /\ Head(fromMain).kind = "clearReply"
                 /\ fromMain' = Tail(fromMain) /\ ~isCancelled) =>
                 LET r == Head(fromMain).id IN
                 /\ loops'[r].pc = "awaiting"
                 /\ loops'[r].launched = <<StepName(loops[r].sel, 0, 0)>>
                 /\ toMain' = Append(toMain, [kind |-> "run", id |-> r])
          /\ \A r \in RunIds :
                 (procs[r].st = "alive" /\ procs'[r].st = "closed") =>
                    LET m == Last(fromMain') IN
                    /\ Len(fromMain') = Len(fromMain) + 1
                    /\ m.kind = "resolve" /\ m.id = r
                    /\ m.result.success <=> (procs'[r].code = 0)
                    /\ m.result.code = procs'[r].code
          /\ (Len(fromMain') = Len(fromMain) + 1 /\ Last(fromMain').kind = "reject") =>
                 procs[Last(fromMain').id].st \in {"sent", "failing"}
      ]_vars

\* Nothing could be written to either log file from before the run, and the
\* run went through both steps, the first one successful.
C15_Witness ==
    /\ ~disk.live /\ ~disk.history
    /\ historyLog = 1 /\ liveLog = <<>>
    /\ loops[1].pc = "done"
    /\ SingleKey(TwoSingles[1]) \in DOMAIN scriptResults
    /\ scriptResults[SingleKey(TwoSingles[1])].success
    /\ scriptResults[SingleKey(TwoSingles[1])].output = <<"ok">>
    /\ SingleKey(TwoSingles[2]) \in DOMAIN scriptResults

C17_ArgsAsRequested ==
    \A r \in RunIds :
        (loops[r].pc = "awaiting" /\ procs[r].st # "none")
            => procs[r].args = loops[r].requested

\* C18: the results map changes only when a run starts (it becomes empty) or
\* when the reply of an invocation is recorded (every key stays, and only
\* the entry of the unit being recorded may change); the steps of a cancel
\* request and the end of a run leave it as it is.
C18_ResultsKeptUntilNextRun ==
    [][/\ scriptResults' # scriptResults =>
             \/ /\ scriptResults' = EmptyMap
                /\ \E r \in RunIds : loops[r].pc = "free" /\ loops'[r].pc = "clearing"
             \/ /\ fromMain # <<>> /\ fromMain' = Tail(fromMain)
                /\ Head(fromMain).kind \in {"resolve", "reject"}
                /\ LET r == Head(fromMain).id
                       key == UnitKey(loops[r].sel[loops[r].i + 1])
                   IN  /\ DOMAIN scriptResults \subseteq DOMAIN scriptResults'
                       /\ \A k \in DOMAIN scriptResults :
                              k # key => scriptResults'[k] = scriptResults[k]
       /\ (\/ confirmOpen' # confirmOpen
           \/ cancels' # cancels
           \/ (toMain # <<>> /\ Head(toMain).kind = "cancel" /\ toMain' = Tail(toMain))
           \/ (fromMain # <<>> /\ Head(fromMain).kind = "cancelReply"
                  /\ fromMain' = Tail(fromMain))
           \/ \E r \in RunIds : loops[r].pc = "notifying" /\ loops'[r].pc = "done")
             => scriptResults' = scriptResults
      ]_vars

\* A run that was cancelled after its first step has ended and one that
\* went through have ended, and what they recorded is still there.
C18_Witness ==
    /\ ~isRunning
    /\ cancels > 0
    /\ \E r \in RunIds : loops[r].pc = "done" /\ loops[r].cls = "cancelled"
    /\ \E r \in RunIds : loops[r].pc = "done" /\ loops[r].cls \in {"succeeded", "failed"}
    /\ scriptResults # EmptyMap

\* C19: no step ever makes the history log shorter: runs, cancel requests,
\* the log page's clear action and application restarts only append to it.
C19_HistoryAppendOnly == [][historyLog' >= historyLog]_vars

\* After a run with a cancel request and a restart of the application, the
\* log page's clear action has just been carried out, and the history log
\* holds the entries of all of them.
C19_Witness ==
    /\ restarts = 1
    /\ cancels = 1
    /\ fromMain # <<>> /\ Head(fromMain).kind = "clearFileReply"
    /\ liveLog = <<>>
    /\ historyLog >= 7

\* C20: every run that was accepted reaches the end of its finally block,
\* which leaves isRunning false, currentScriptIndex -1 and isCancelled false.
C20_RunReachesFinishing ==
    /\ \A r \in RunIds :
          (loops[r].pc = "clearing") ~> (loops[r].pc = "done")
    /\ [][\A r \in RunIds :
             (loops[r].pc # "done" /\ loops'[r].pc = "done")
                 => (~isRunning' /\ currentScriptIndex' = -1 /\ ~isCancelled')
        ]_vars

\* A run in which cancel was confirmed has ended, and the run state is reset.
C20_Witness ==
    /\ loops[1].pc = "done" /\ loops[1].cls = "cancelled"
    /\ loops[2].pc = "free"
    /\ cancels = 1
    /\ ~isRunning /\ currentScriptIndex = -1 /\ ~isCancelled
    /\ toMain = <<>> /\ fromMain = <<>>


\* C21: the step that starts a run empties the results map and sets
\* isCancelled to false and currentScriptIndex to -1; when the first step of
\* the run is launched the live log is empty; and while that first step is
\* in flight the results map is empty and every live-log line is a line of
\* that step.
C21_StartLeavesNothingBehind ==
    /\ [][\A r \in RunIds :
             /\ (loops[r].pc = "free" /\ loops'[r].pc = "clearing") =>
                   /\ scriptResults' = EmptyMap
                   /\ ~isCancelled'
                   /\ currentScriptIndex' = -1
             /\ (loops[r].pc = "clearing" /\ loops'[r].pc = "awaiting") =>
                   liveLog' = <<>>
        ]_vars
    /\ [](\A r \in RunIds :
             (loops[r].pc = "awaiting" /\ loops[r].i = 0 /\ loops[r].j = 0) =>
                /\ scriptResults = EmptyMap
                /\ \A k \in 1..Len(liveLog) :
                      liveLog[k].scriptName = StepName(loops[r].sel, 0, 0))


\* C22: whenever isRunning is false, currentScriptIndex is -1 and no step
\* process is alive.
C22_IdleMeansNoRunActive ==
    ~isRunning => (currentScriptIndex = -1 /\ InFlight = {})


\* C23: in runs without cancel requests, while an invocation of a run is
\* pending, currentScriptIndex is the position of its unit in the selection.
C23_IndexIsUnitInFlight ==
    cancels = 0 =>
        \A r \in RunIds :
            loops[r].pc = "awaiting" => currentScriptIndex = loops[r].i

\* The process of the second selected unit is running and the index is 1.
C23_Witness ==
    /\ cancels = 0
    /\ loops[1].pc = "awaiting" /\ loops[1].sel = TwoSingles /\ loops[1].i = 1
    /\ procs[1].st = "alive"
    /\ currentScriptIndex = 1


\* The step run r is at has an outcome in the results map.
Recorded(r) ==
    LET script == loops[r].sel[loops[r].i + 1] IN
    IF IsPipeline(script)
    THEN /\ GroupKey(script) \in DOMAIN scriptResults
         /\ \E k \in 1..Len(scriptResults[GroupKey(script)].subScripts) :
               scriptResults[GroupKey(script)].subScripts[k].name
                   = script.scripts[loops[r].j + 1]
    ELSE SingleKey(script) \in DOMAIN scriptResults

\* C24: a chunk of a step's output is logged only while the step has no
\* outcome yet, and the outcome that is recorded for a closed process holds
\* all the output and all the error output that was logged for it.
C24_OutcomeAfterItsLogs ==
    [][\A r \in RunIds :
          /\ (procs[r].st # "none" /\ procs'[r].st = procs[r].st
                /\ (procs'[r].output # procs[r].output
                      \/ procs'[r].errorOutput # procs[r].errorOutput)) =>
                /\ ~Recorded(r)
                /\ historyLog' = historyLog + 1
                /\ Len(liveLog') = Len(liveLog) + 1
          /\ (procs[r].st = "closed" /\ procs'[r].st # "closed" /\ ~isCancelled) =>
                LET script == loops[r].sel[loops[r].i + 1]
                    o == IF IsPipeline(script)
                         THEN Last(scriptResults'[GroupKey(script)].subScripts)
                         ELSE scriptResults'[SingleKey(script)]
                IN  /\ o.output = procs[r].output
                    /\ ~o.success => o.error = procs[r].errorOutput
      ]_vars

\* The first step printed a line and closed, and its outcome is recorded
\* with that line, after the entries in both logs.
C24_Witness ==
    /\ SingleKey(TwoSingles[1]) \in DOMAIN scriptResults
    /\ scriptResults[SingleKey(TwoSingles[1])].output = <<"ok">>
    /\ Len(liveLog) = 1 /\ liveLog[1].scriptName = "decompress"
    /\ liveLog[1].line = <<"ok">>
    /\ historyLog = 4
    /\ loops[1].pc = "awaiting" /\ loops[1].i = 1


\* The coroutines of onRunScripts that have started and not yet run their
\* finally block.
PendingLoops == {r \in RunIds : loops[r].pc \in {"clearing", "awaiting", "notifying"}}

\* C25: at most one coroutine of onRunScripts is pending at any time.
C25_OneLoopPending == Cardinality(PendingLoops) <= 1


\* C26: isCancelled is set during a run only by a cancel that was requested
\* during that run.
C26_FlagFromOwnCancel ==
    \A r \in RunIds :
        (loops[r].pc \in {"clearing", "awaiting"} /\ loops[r].flagSeen)
            => loops[r].askedAt # NotAsked


\* C27: when the timer of a cancel fires and delivers the forceful kill, it
\* is to the process the graceful signal of that cancel was sent to.
C27_KillHitsItsTarget ==
    [][(killTimers # <<>> /\ killTimers' = Tail(killTimers)) =>
          \A r \in RunIds :
              (procs'[r].forced /\ ~procs[r].forced) =>
                  /\ Head(killTimers).target = r
                  /\ Head(killTimers).step = <<loops[r].i, loops[r].j>>
      ]_vars


\* C28: the reference of the main process is to a launched process that has
\* neither closed nor failed to start, or it is null; and a process that is
\* alive is the one the reference points to.
C28_ReferenceTracksProcess ==
    /\ currentPythonProcess # NoProcess =>
          /\ currentPythonProcess \in RunIds
          /\ procs[currentPythonProcess].st \in {"alive", "failing"}
    /\ \A r \in RunIds :
          procs[r].st = "alive" => currentPythonProcess = r


selectedScripts ==
    LET pending == {r \in RunIds : loops[r].pc \notin {"free", "done"}} IN
    IF pending = {} THEN <<>>
    ELSE loops[CHOOSE r \in pending : \A q \in pending : q <= r].sel

\* computed(() => props.currentScriptIndex || -1): index 0 is falsy.
currentScriptIndexProp == IF currentScriptIndex = 0 THEN -1 ELSE currentScriptIndex

\* isCurrentExecuting of the list component.
isCurrentExecuting(scriptId) ==
    IF ~isRunning THEN FALSE
    ELSE IF currentScriptIndexProp < 0
    THEN selectedScripts # <<>> /\ selectedScripts[1].id = scriptId
    ELSE /\ currentScriptIndexProp + 1 <= Len(selectedScripts)
         /\ selectedScripts[currentScriptIndexProp + 1].id = scriptId

\* getScriptStatus of ScriptCard; showScriptCount is set on pipeline cards.
getScriptStatus(script) ==
    LET scriptKey == IF IsPipeline(script) THEN GroupKey(script) ELSE SingleKey(script) IN
    IF isCurrentExecuting(script.id) THEN "running"
    ELSE IF scriptKey \in DOMAIN scriptResults
    THEN LET result == scriptResults[scriptKey]
             subs == result.subScripts
         IN  IF result.hasSubScripts /\ Len(subs) > 0
             THEN LET allSubScriptsCompleted ==
                          \A n \in 1..Len(subs) : subs[n].success \in BOOLEAN
                      allSubScriptsSuccess ==
                          \A n \in 1..Len(subs) : subs[n].success
                  IN  IF allSubScriptsCompleted
                      THEN (IF allSubScriptsSuccess THEN "completed" ELSE "error")
                      ELSE "running"
             ELSE IF result.success THEN "completed" ELSE "error"
    ELSE "idle"

\* The pipeline cards of the list.
PipelineCards == {PipelineXY[1], PipelineABC[1]}

\* Every member of the pipeline has a successful outcome in its Grouped Outcome.
AllMembersSucceeded(script) ==
    /\ GroupKey(script) \in DOMAIN scriptResults
    /\ \A m \in 1..Len(script.scripts) :
          \E n \in 1..Len(scriptResults[GroupKey(script)].subScripts) :
              /\ scriptResults[GroupKey(script)].subScripts[n].name = script.scripts[m]
              /\ scriptResults[GroupKey(script)].subScripts[n].success

\* C30: a pipeline card shows "completed" only if every member of the
\* pipeline has a recorded successful outcome.
C30_CompletedMeansAllMembers ==
    \A script \in PipelineCards :
        getScriptStatus(script) = "completed" => AllMembersSucceeded(script)

====
